---- MODULE Spec2Model ----
(***************************************************************************)
(* A model of app.py: the two request handlers /generate and               *)
(* /upload-to-spaces, which submit an async inference job, poll its status *)
(* until it is terminal or the poll times out, fetch the result, extract   *)
(* the image bytes from it and answer the HTTP request.                    *)
(*                                                                         *)
(* Strings the code computes on (upper(), startswith(), b64decode()) are   *)
(* sequences of one-character strings; JSON values are tagged records;     *)
(* a JSON object is a sequence of <<key, value>> pairs in insertion order. *)
(***************************************************************************)
EXTENDS Integers, Sequences, FiniteSets, TLC

\* ------------------------------------------------------------------ bounds
\* Longest time (s) one status request may take (its HTTP timeout is 10 s).
MaxLatency == 1
\* Longest time (s) time.sleep may overshoot the interval it was given.
MaxOversleep == 1

\* ----------------------------------------------------------- configuration
\* POLL_TIMEOUT and POLL_INTERVAL, set to the values of the timeout scenario.
DEFAULT_POLL_TIMEOUT == 5
DEFAULT_POLL_INTERVAL == 1

\* --------------------------------------------------------------- characters
LowerLetters == <<"a","b","c","d","e","f","g","h","i","j","k","l","m",
                  "n","o","p","q","r","s","t","u","v","w","x","y","z">>
UpperLetters == <<"A","B","C","D","E","F","G","H","I","J","K","L","M",
                  "N","O","P","Q","R","S","T","U","V","W","X","Y","Z">>
Digits == <<"0","1","2","3","4","5","6","7","8","9">>

IndexIn(seq, c) == IF \E i \in 1..Len(seq) : seq[i] = c
                   THEN CHOOSE i \in 1..Len(seq) : seq[i] = c
                   ELSE 0

\* str.upper() on one character
UpperCharIdentity(c) == c
UpperChar(c) == IF IndexIn(LowerLetters, c) > 0
                THEN UpperLetters[IndexIn(LowerLetters, c)]
                ELSE c

\* str.upper()
StrUpper(s) == [i \in 1..Len(s) |-> UpperChar(s[i])]

\* str.startswith("http")
StartsWithHttp(s) == Len(s) >= 4 /\ SubSeq(s, 1, 4) = <<"h","t","t","p">>

\* -------------------------------------------------------------- JSON values
Null == [t |-> "null"]
Str(s) == [t |-> "str", s |-> s]
List(el) == [t |-> "list", el |-> el]
Dict(kv) == [t |-> "dict", kv |-> kv]

EmptyStr == Str(<<>>)

\* Python truthiness of a JSON value
Truthy(v) == CASE v.t = "null" -> FALSE
               [] v.t = "str"  -> Len(v.s) > 0
               [] v.t = "list" -> Len(v.el) > 0
               [] v.t = "dict" -> Len(v.kv) > 0

HasKey(d, k) == \E i \in 1..Len(d.kv) : d.kv[i][1] = k

\* dict.get(k): the value under k, None when k is absent
Get(d, k) == IF HasKey(d, k)
             THEN d.kv[CHOOSE i \in 1..Len(d.kv) : d.kv[i][1] = k][2]
             ELSE Null

\* Python's  a or b
PyOr(a, b) == IF Truthy(a) THEN a ELSE b

\* ------------------------------------------------------------------ base64
B64Alphabet == UpperLetters \o LowerLetters \o Digits \o <<"+", "/">>

\* value of a base64 digit, -1 for a character outside the alphabet
B64Val(c) == IndexIn(B64Alphabet, c) - 1

\* binascii.a2b_base64 in its default, non-strict mode: characters outside
\* the alphabet are skipped, a complete pad sequence ends the input, and
\* input that ends inside a quad is an error ("Incorrect padding").
RECURSIVE A2B(_, _, _, _, _, _)
A2B(s, i, quad, pads, left, out) ==
    IF i > Len(s)
    THEN IF quad # 0 THEN [ok |-> FALSE, bytes |-> <<>>]
                     ELSE [ok |-> TRUE, bytes |-> out]
    ELSE IF s[i] = "="
    THEN IF quad >= 2 /\ quad + pads + 1 >= 4
         THEN [ok |-> TRUE, bytes |-> out]
         ELSE A2B(s, i + 1, quad, IF quad >= 2 THEN pads + 1 ELSE pads, left, out)
    ELSE IF B64Val(s[i]) < 0
    THEN A2B(s, i + 1, quad, pads, left, out)
    ELSE LET v == B64Val(s[i]) IN
         CASE quad = 0 -> A2B(s, i + 1, 1, 0, v, out)
           [] quad = 1 -> A2B(s, i + 1, 2, 0, v % 16, Append(out, left * 4 + (v \div 16)))
           [] quad = 2 -> A2B(s, i + 1, 3, 0, v % 4, Append(out, left * 16 + (v \div 4)))
           [] quad = 3 -> A2B(s, i + 1, 0, 0, 0, Append(out, left * 64 + v))

\* base64.b64decode(s)
B64Decode(s) == A2B(s, 1, 0, 0, 0, <<>>)

\* ------------------------------------------------------ poll_until_complete
W_COMPLETE  == <<"C","O","M","P","L","E","T","E">>
W_SUCCEEDED == <<"S","U","C","C","E","E","D","E","D">>
W_SUCCESS   == <<"S","U","C","C","E","S","S">>
W_FAILED    == <<"F","A","I","L","E","D">>
W_ERROR     == <<"E","R","R","O","R">>

\* status_val = (status_json.get("status") or status_json.get("state") or "").upper()
StatusVal(status_json) ==
    StrUpper(PyOr(PyOr(Get(status_json, "status"), Get(status_json, "state")), EmptyStr).s)

\* status_val in ("COMPLETE", "SUCCEEDED", "SUCCESS")
IsSuccess(status_val) == status_val \in {W_COMPLETE, W_SUCCEEDED, W_SUCCESS}

\* status_val in ("FAILED", "ERROR")
IsFailureOnlyFailed(status_val) == status_val \in {W_FAILED}
IsFailure(status_val) == status_val \in {W_FAILED, W_ERROR}

\* time.time() - start > timeout_seconds
TimedOutAtBoundary(elapsed_s) == elapsed_s >= DEFAULT_POLL_TIMEOUT
TimedOut(elapsed_s) == elapsed_s > DEFAULT_POLL_TIMEOUT

\* What one iteration of the loop does once the status has arrived:
\* the status is classified first, the clock is read only after that.
PollStepTimeoutFirst(status_json, elapsed_s) ==
    IF TimedOut(elapsed_s) THEN "timeout"
    ELSE IF IsSuccess(StatusVal(status_json)) THEN "result"
    ELSE IF IsFailure(StatusVal(status_json)) THEN "failed"
    ELSE "sleep"
PollStep(status_json, elapsed_s) ==
    IF IsSuccess(StatusVal(status_json)) THEN "result"
    ELSE IF IsFailure(StatusVal(status_json)) THEN "failed"
    ELSE IF TimedOut(elapsed_s) THEN "timeout"
    ELSE "sleep"

\* --------------------------------------------------- request id of a submit
\* start_resp.get("request_id") or start_resp.get("id") or start_resp.get("requestId")
RequestIdOfCamelFirst(start_resp) ==
    PyOr(PyOr(Get(start_resp, "request_id"), Get(start_resp, "requestId")), Get(start_resp, "id"))
RequestIdOf(start_resp) ==
    PyOr(PyOr(Get(start_resp, "request_id"), Get(start_resp, "id")), Get(start_resp, "requestId"))

\* ------------------------------------------ extract_image_bytes_from_result
\* find_first_url: a string is returned only as the value of a mapping key;
\* a mapping or a sequence is searched, any other value yields None.
RECURSIVE FindFirstUrl(_), FindInItems(_, _), FindInElems(_, _)
FindInItems(kv, i) ==
    IF i > Len(kv) THEN Null
    ELSE IF kv[i][2].t = "str" /\ StartsWithHttp(kv[i][2].s) THEN kv[i][2]
    ELSE LET found == FindFirstUrl(kv[i][2]) IN
         IF Truthy(found) THEN found ELSE FindInItems(kv, i + 1)
FindInElems(el, i) ==
    IF i > Len(el) THEN Null
    ELSE LET found == FindFirstUrl(el[i]) IN
         IF Truthy(found) THEN found ELSE FindInElems(el, i + 1)
FindFirstUrl(obj) ==
    IF obj.t = "dict" THEN FindInItems(obj.kv, 1)
    ELSE IF obj.t = "list" THEN FindInElems(obj.el, 1)
    ELSE Null

\* output = result_json.get("output") or result_json.get("outputs") or result_json.get("results")
OutputOfFirstPresent(result_json) ==
    IF HasKey(result_json, "output") THEN Get(result_json, "output")
    ELSE IF HasKey(result_json, "outputs") THEN Get(result_json, "outputs")
    ELSE Get(result_json, "results")
OutputOf(result_json) ==
    PyOr(PyOr(Get(result_json, "output"), Get(result_json, "outputs")), Get(result_json, "results"))

Plan(kind, strategy, arg) == [kind |-> kind, strategy |-> strategy, arg |-> arg]
NoPlan == Plan("none", 0, Null)

\* strategy 2 on item = output[0]; NoPlan when nothing in it matches
ItemPlan(item) ==
    IF item.t # "dict" THEN NoPlan
    ELSE IF Truthy(Get(item, "url")) THEN Plan("fetch", 2, Get(item, "url"))
    ELSE IF Truthy(Get(item, "base64")) \/ Truthy(Get(item, "b64"))
         THEN Plan("decode", 2, PyOr(Get(item, "base64"), Get(item, "b64")))
    ELSE IF Truthy(Get(item, "image")) /\ Get(item, "image").t = "str"
         THEN Plan("decode", 2, Get(item, "image"))
    ELSE NoPlan

\* strategy 3
SearchPlan(result_json) ==
    IF Truthy(FindFirstUrl(result_json))
    THEN Plan("fetch", 3, FindFirstUrl(result_json))
    ELSE NoPlan

\* The strategy extract_image_bytes_from_result takes, and on what.
ExtractPlanOutputFirst(result_json) ==
    IF OutputOf(result_json).t = "list" /\ Len(OutputOf(result_json).el) > 0
       /\ ItemPlan(OutputOf(result_json).el[1]) # NoPlan
    THEN ItemPlan(OutputOf(result_json).el[1])
    ELSE IF Truthy(Get(result_json, "url")) THEN Plan("fetch", 1, Get(result_json, "url"))
    ELSE SearchPlan(result_json)
ExtractPlan(result_json) ==
    IF Truthy(Get(result_json, "url")) THEN Plan("fetch", 1, Get(result_json, "url"))
    ELSE IF OutputOf(result_json).t = "list" /\ Len(OutputOf(result_json).el) > 0
            /\ ItemPlan(OutputOf(result_json).el[1]) # NoPlan
    THEN ItemPlan(OutputOf(result_json).el[1])
    ELSE SearchPlan(result_json)

\* resp.headers.get("Content-Type", "image/png")
ContentTypeOf(headers) == IF headers.has THEN headers.v ELSE "image/png"

\* ------------------------------------------------------------- the service
\* DO_INFERENCE_BASE = "https://inference.do-ai.run/v1/async-invoke"
DO_INFERENCE_BASE ==
    <<"h","t","t","p","s",":","/","/","i","n","f","e","r","e","n","c","e",".",
      "d","o","-","a","i",".","r","u","n","/","v","1","/",
      "a","s","y","n","c","-","i","n","v","o","k","e">>

\* f"{DO_INFERENCE_BASE}/{request_id}/status"
StatusUrl(rid) == DO_INFERENCE_BASE \o <<"/">> \o rid.s \o <<"/","s","t","a","t","u","s">>
\* f"{DO_INFERENCE_BASE}/{request_id}"
ResultUrl(rid) == DO_INFERENCE_BASE \o <<"/">> \o rid.s

\* ------------------------------------------------------------------ inputs
U1 == Str(<<"h","t","t","p",":","/","/","x">>)
U2 == Str(<<"h","t","t","p","s",":","/","/","y">>)
B64_hello == Str(<<"a","G","V","s","b","G","8","=">>)
B64_hi    == Str(<<"a","G","k","=">>)
B64_A     == Str(<<"Q","Q","=","=">>)
B64_png   == Str(<<"i","V","B","O">>)
B64_bad   == Str(<<"a","G","k">>)
B64_empty == Str(<<"=","=","=","=">>)
Text      == Str(<<"d","o","n","e">>)

\* what the submit endpoint may answer
SubmitResponses ==
    { Dict(<< <<"request_id", Str(<<"a","b","c">>)>> >>),
      Dict(<< <<"id", Str(<<"x">>)>>, <<"requestId", Str(<<"y">>)>> >>),
      Dict(<< <<"request_id", EmptyStr>>, <<"id", Str(<<"x">>)>> >>),
      Dict(<< <<"request_id", Null>>, <<"requestId", Str(<<"y">>)>> >>),
      Dict(<< <<"request_id", EmptyStr>> >>),
      Dict(<< <<"message", Text>> >>),
      Dict(<<>>) }

StatusOf(w) == Dict(<< <<"status", Str(w)>> >>)

\* what the status endpoint may answer
StatusResponses ==
    { StatusOf(<<"C","O","M","P","L","E","T","E">>),
      StatusOf(<<"s","u","c","c","e","e","d","e","d">>),
      StatusOf(<<"S","u","c","c","e","s","s">>),
      StatusOf(<<"F","A","I","L","E","D">>),
      StatusOf(<<"F","a","i","l","e","d">>),
      Dict(<< <<"state", Str(<<"e","r","r","o","r">>)>> >>),
      Dict(<< <<"status", Null>>, <<"state", Str(<<"C","o","m","p","l","e","t","e">>)>> >>),
      StatusOf(<<"C","O","M","P","L","E","T","E","D">>),
      StatusOf(<<"R","U","N","N","I","N","G">>),
      StatusOf(<<"p","e","n","d","i","n","g">>),
      StatusOf(<<>>),
      Dict(<<>>) }

\* what the result endpoint may answer
Results ==
    { Dict(<< <<"url", U1>> >>),
      Dict(<< <<"url", U1>>, <<"output", List(<< Dict(<< <<"url", U2>> >>) >>)>> >>),
      Dict(<< <<"url", EmptyStr>>, <<"output", List(<< Dict(<< <<"url", U2>> >>) >>)>> >>),
      Dict(<< <<"output", List(<< Dict(<< <<"base64", B64_hello>> >>) >>)>> >>),
      Dict(<< <<"output", List(<<>>)>>,
              <<"outputs", List(<< Dict(<< <<"b64", B64_hi>> >>) >>)>> >>),
      Dict(<< <<"outputs", List(<< Dict(<< <<"b64", B64_hi>> >>) >>)>>,
              <<"results", List(<< Dict(<< <<"url", U1>> >>) >>)>> >>),
      Dict(<< <<"output", List(<< Dict(<< <<"url", U2>> >>), Dict(<< <<"url", U1>> >>) >>)>> >>),
      Dict(<< <<"output", List(<< Dict(<< <<"text", Text>> >>),
                                  Dict(<< <<"base64", B64_A>> >>) >>)>> >>),
      Dict(<< <<"output", List(<< Dict(<< <<"b64", B64_hi>>, <<"base64", B64_A>>,
                                          <<"url", EmptyStr>> >>) >>)>> >>),
      Dict(<< <<"output", List(<< Dict(<< <<"image", B64_png>>, <<"b64", B64_hi>> >>) >>)>> >>),
      Dict(<< <<"output", List(<< Dict(<< <<"image", B64_png>> >>) >>)>> >>),
      Dict(<< <<"results", List(<< Dict(<< <<"base64", B64_A>>, <<"url", U1>> >>) >>)>> >>),
      Dict(<< <<"output", List(<< Dict(<< <<"base64", B64_bad>> >>) >>)>> >>),
      Dict(<< <<"output", List(<< Dict(<< <<"base64", B64_empty>> >>) >>)>> >>),
      Dict(<< <<"output", List(<< Dict(<< <<"text", Text>> >>) >>)>>,
              <<"meta", Dict(<< <<"link", U2>> >>)>> >>),
      Dict(<< <<"output", Dict(<< <<"link", U1>> >>)>> >>),
      Dict(<< <<"data", Dict(<< <<"note", Text>>,
                                <<"images", List(<< Dict(<< <<"link", U1>> >>) >>)>> >>)>>,
              <<"other", U2>> >>),
      Dict(<< <<"images", List(<< U1 >>)>> >>),
      Dict(<< <<"output", List(<< U1 >>)>> >>),
      Dict(<< <<"message", Text>> >>),
      Dict(<<>>) }

Headers == { [has |-> FALSE, v |-> ""], [has |-> TRUE, v |-> "image/jpeg"] }
Bodies == { <<137, 80>>, <<>> }

\* how an outbound request may fail: raise_for_status() on a non-2xx answer,
\* or an exception of requests that carries no answer at all
RequestFailures == {"HTTPError", "ConnectionError"}

Handlers == {"generate_image", "upload_image_to_spaces"}
Prompts == { <<>>, <<"c","a","t">> }

\* ------------------------------------------------------------------- state
VARIABLES
    keySet,        \* DO_MODEL_ACCESS_KEY is set in the environment
    pc,            \* where the handler is
    handler,       \* the route that is being served
    log,           \* the outbound requests of this run, in order
    start_resp,    \* generate_image / upload_image_to_spaces: start_resp
    request_id,    \* ... request_id
    elapsed,       \* poll_until_complete: time.time() - start
    lastFetch,     \* duration of the latest status request
    lastSleep,     \* duration of the sleep before the latest status request
    status_json,   \* poll_until_complete: status_json
    pollStep,      \* what the latest loop iteration did
    final_result,  \* final_result
    resultBody,    \* the JSON the result endpoint answered
    fetched,       \* the answer to the asset fetch
    img_bytes,     \* img_bytes
    content_type,  \* content_type
    kind,          \* how the run ended
    response,      \* the HTTP response of the handler
    prev           \* the handler, kind and response of the latest failed run

vars == <<keySet, pc, handler, log, start_resp, request_id, elapsed, lastFetch,
          lastSleep, status_json, pollStep, final_result, resultBody, fetched,
          img_bytes, content_type, kind, response, prev>>

pollVars == <<elapsed, lastFetch, lastSleep, status_json, pollStep>>
extractVars == <<fetched, img_bytes, content_type>>

NoHeaders == [has |-> FALSE, v |-> ""]
NoFetch == [done |-> FALSE, ok |-> FALSE, content |-> <<>>, headers |-> NoHeaders]
NoneBytes == [none |-> TRUE, b |-> <<>>]
Bytes(b) == [none |-> FALSE, b |-> b]
NoneType == "None"
NoResponse == [status |-> 0, error |-> "", details |-> Null, body |-> Null]
NoPrev == [handler |-> "", kind |-> "", status |-> 0, error |-> ""]

\* the kinds of failure of a run
ErrorKinds == {"SubmissionError", "MalformedResponseError", "TransportError",
               "JobFailedError", "PollTimeoutError", "NoImageFoundError"}

Entry(op, url, ok, obs) == [op |-> op, url |-> url, ok |-> ok, obs |-> obs]

\* jsonify({"error": ..., ...}), status
ErrorResponse(status, error, details, body) ==
    [status |-> status, error |-> error, details |-> details, body |-> body]

\* the except clauses of the two handlers
HandlerExcept(h, exc, details) ==
    IF exc = "TimeoutError"
    THEN ErrorResponse(504, "Inference job timed out", details, Null)
    ELSE IF h = "generate_image"
    THEN IF exc = "HTTPError"
         THEN ErrorResponse(502, "HTTP error during inference", details, Null)
         ELSE ErrorResponse(500, "Failed to generate image", details, Null)
    ELSE ErrorResponse(500, "Failed to generate or upload image", details, Null)

RequestError(exc, url) == [t |-> exc, url |-> url]

\* ------------------------------------------------- what the properties observe
\* kind, prev and the obs field of a log entry take no part in what the
\* handlers do: they record, in the words of the specification, how a run
\* ended and what a status answer was.
\* What a normalized status is, by the words themselves: s is w in any case.
SameIgnoringCase(s, w) ==
    /\ Len(s) = Len(w)
    /\ \A i \in 1..Len(s) :
          \/ s[i] = w[i]
          \/ /\ IndexIn(LowerLetters, s[i]) > 0
             /\ IndexIn(LowerLetters, s[i]) = IndexIn(UpperLetters, w[i])

\* the status string of an answer: its status, or else its state, or else ""
StatusString(sj) ==
    IF Get(sj, "status").t = "str" /\ Get(sj, "status").s # <<>> THEN Get(sj, "status").s
    ELSE IF Get(sj, "state").t = "str" /\ Get(sj, "state").s # <<>> THEN Get(sj, "state").s
    ELSE <<>>

NormalizedStatus(sj) ==
    IF \E w \in {W_COMPLETE, W_SUCCEEDED, W_SUCCESS} : SameIgnoringCase(StatusString(sj), w)
    THEN "Complete"
    ELSE IF \E w \in {W_FAILED, W_ERROR} : SameIgnoringCase(StatusString(sj), w)
    THEN "Failed"
    ELSE "Pending"

\* One loop iteration of poll_until_complete, from the answer to the status
\* request: an exception of get_job_status leaves the loop.
PollOutcomeRetry(ok, sj, elapsed_s) ==
    IF ~ok THEN "sleep" ELSE PollStep(sj, elapsed_s)
PollOutcome(ok, sj, elapsed_s) ==
    IF ~ok THEN "raise" ELSE PollStep(sj, elapsed_s)

\* return get_job_result(request_id)
PollReturn(sj, result_json) == result_json

\* ------------------------------------------------------------------- Init
Init ==
    /\ keySet \in BOOLEAN
    /\ pc = "idle"
    /\ handler = ""
    /\ log = <<>>
    /\ start_resp = Null
    /\ request_id = Null
    /\ elapsed = 0
    /\ lastFetch = 0
    /\ lastSleep = 0
    /\ status_json = Null
    /\ pollStep = ""
    /\ final_result = Null
    /\ resultBody = Null
    /\ fetched = NoFetch
    /\ img_bytes = NoneBytes
    /\ content_type = NoneType
    /\ kind = ""
    /\ response = NoResponse
    /\ prev = NoPrev

\* the run ends with the response r
Finish(k, r) ==
    /\ pc' = "done"
    /\ kind' = k
    /\ response' = r

\* ---------------------------------------------------------------- actions
\* A request arrives at one of the two routes; both validate it the same way.
Begin ==
    /\ pc = "idle"
    /\ \E h \in Handlers, prompt \in Prompts :
          /\ handler' = h
          /\ IF ~keySet
             THEN Finish("NotConfigured",
                         ErrorResponse(500, "Server not configured with DO_MODEL_ACCESS_KEY", Null, Null))
             ELSE IF prompt = <<>>
             THEN Finish("BadRequest", ErrorResponse(400, "Prompt is required", Null, Null))
             ELSE pc' = "submit" /\ UNCHANGED <<kind, response>>
    /\ UNCHANGED <<keySet, log, start_resp, request_id, pollVars, final_result,
                   resultBody, extractVars, prev>>

\* start_async_inference, and the request id taken from its answer
SubmitFails ==
    /\ pc = "submit"
    /\ \E f \in RequestFailures :
          /\ log' = Append(log, Entry("submit", DO_INFERENCE_BASE, FALSE, ""))
          /\ Finish("SubmissionError",
                    HandlerExcept(handler, f, RequestError(f, DO_INFERENCE_BASE)))
    /\ UNCHANGED <<keySet, handler, start_resp, request_id, pollVars, final_result,
                   resultBody, extractVars, prev>>

Submit ==
    /\ pc = "submit"
    /\ \E r \in SubmitResponses :
          /\ log' = Append(log, Entry("submit", DO_INFERENCE_BASE, TRUE, ""))
          /\ start_resp' = r
          /\ request_id' = RequestIdOf(r)
          /\ IF ~Truthy(RequestIdOf(r))
             THEN Finish("MalformedResponseError",
                         ErrorResponse(500, "Unexpected async-invoke response", Null, r))
             ELSE pc' = "poll" /\ UNCHANGED <<kind, response>>
    /\ UNCHANGED <<keySet, handler, pollVars, final_result, resultBody, extractVars, prev>>

\* one iteration of the loop of poll_until_complete: the status request,
\* which takes d seconds, the classification of its answer, the timeout
\* check, and the sleep when the loop goes on
PollIteration(d, ok, sj, f) ==
    LET now == elapsed + d
        step == PollOutcome(ok, sj, now)
    IN  /\ log' = Append(log, Entry("status", StatusUrl(request_id), ok,
                                    IF ok THEN NormalizedStatus(sj) ELSE ""))
        /\ status_json' = sj
        /\ lastFetch' = d
        /\ pollStep' = step
        /\ CASE step = "raise" ->
                  /\ elapsed' = now
                  /\ Finish("TransportError",
                            HandlerExcept(handler, f, RequestError(f, StatusUrl(request_id))))
                  /\ UNCHANGED lastSleep
             [] step = "result" ->
                  /\ elapsed' = now
                  /\ pc' = "result"
                  /\ UNCHANGED <<lastSleep, kind, response>>
             [] step = "failed" ->
                  /\ elapsed' = now
                  /\ Finish("JobFailedError",
                            HandlerExcept(handler, "RuntimeError",
                                          [t |-> "Inference job failed", status_json |-> sj]))
                  /\ UNCHANGED lastSleep
             [] step = "timeout" ->
                  /\ elapsed' = now
                  /\ Finish("PollTimeoutError",
                            HandlerExcept(handler, "TimeoutError",
                                          [t |-> "timed out after", s |-> DEFAULT_POLL_TIMEOUT]))
                  /\ UNCHANGED lastSleep
             [] step = "sleep" ->
                  \E j \in 0..MaxOversleep :
                     /\ elapsed' = now + DEFAULT_POLL_INTERVAL + j
                     /\ lastSleep' = DEFAULT_POLL_INTERVAL + j
                     /\ UNCHANGED <<pc, kind, response>>

Poll ==
    /\ pc = "poll"
    /\ \E d \in 0..MaxLatency, sj \in StatusResponses : PollIteration(d, TRUE, sj, "")
    /\ UNCHANGED <<keySet, handler, start_resp, request_id, final_result, resultBody,
                   extractVars, prev>>

PollFails ==
    /\ pc = "poll"
    /\ \E d \in 0..MaxLatency, f \in RequestFailures : PollIteration(d, FALSE, Null, f)
    /\ UNCHANGED <<keySet, handler, start_resp, request_id, final_result, resultBody,
                   extractVars, prev>>

\* return get_job_result(request_id): poll_until_complete returns the answer
\* of the result endpoint, and its locals are gone
GetResult ==
    /\ pc = "result"
    /\ \E r \in Results :
          /\ log' = Append(log, Entry("result", ResultUrl(request_id), TRUE, ""))
          /\ resultBody' = r
          /\ final_result' = PollReturn(status_json, r)
          /\ pc' = "extract"
    /\ elapsed' = 0
    /\ lastFetch' = 0
    /\ lastSleep' = 0
    /\ status_json' = Null
    /\ pollStep' = ""
    /\ UNCHANGED <<keySet, handler, start_resp, request_id, extractVars,
                   kind, response, prev>>

GetResultFails ==
    /\ pc = "result"
    /\ \E f \in RequestFailures :
          /\ log' = Append(log, Entry("result", ResultUrl(request_id), FALSE, ""))
          /\ Finish("TransportError",
                    HandlerExcept(handler, f, RequestError(f, ResultUrl(request_id))))
    /\ UNCHANGED <<keySet, handler, start_resp, request_id, pollVars, final_result,
                   resultBody, extractVars, prev>>

\* extract_image_bytes_from_result, when the strategy it takes is a fetch:
\* requests.get(url), raise_for_status(), the body and its content type
ExtractFetch ==
    /\ pc = "extract"
    /\ ExtractPlan(final_result).kind = "fetch"
    /\ \E b \in Bodies, h \in Headers :
          /\ log' = Append(log, Entry("fetch", ExtractPlan(final_result).arg.s, TRUE, ""))
          /\ fetched' = [done |-> TRUE, ok |-> TRUE, content |-> b, headers |-> h]
          /\ img_bytes' = Bytes(b)
          /\ content_type' = ContentTypeOf(h)
          /\ pc' = "respond"
    /\ UNCHANGED <<keySet, handler, start_resp, request_id, pollVars, final_result,
                   resultBody, kind, response, prev>>

ExtractFetchFails ==
    /\ pc = "extract"
    /\ ExtractPlan(final_result).kind = "fetch"
    /\ \E f \in RequestFailures :
          /\ log' = Append(log, Entry("fetch", ExtractPlan(final_result).arg.s, FALSE, ""))
          /\ fetched' = [done |-> TRUE, ok |-> FALSE, content |-> <<>>, headers |-> NoHeaders]
          /\ Finish("TransportError",
                    HandlerExcept(handler, f, RequestError(f, ExtractPlan(final_result).arg.s)))
    /\ UNCHANGED <<keySet, handler, start_resp, request_id, pollVars, final_result,
                   resultBody, img_bytes, content_type, prev>>

\* ... when it is base64.b64decode of an inline string
ExtractDecode ==
    /\ pc = "extract"
    /\ ExtractPlan(final_result).kind = "decode"
    /\ LET got == B64Decode(ExtractPlan(final_result).arg.s) IN
          IF got.ok
          THEN /\ img_bytes' = Bytes(got.bytes)
               /\ content_type' = "image/png"
               /\ pc' = "respond"
               /\ UNCHANGED <<kind, response>>
          ELSE /\ Finish("DecodeError",
                         HandlerExcept(handler, "binascii.Error", [t |-> "Incorrect padding"]))
               /\ UNCHANGED <<img_bytes, content_type>>
    /\ UNCHANGED <<keySet, handler, log, start_resp, request_id, pollVars, final_result,
                   resultBody, fetched, prev>>

\* ... when no strategy matches: return None, None
ExtractNothing ==
    /\ pc = "extract"
    /\ ExtractPlan(final_result).kind = "none"
    /\ img_bytes' = NoneBytes
    /\ content_type' = NoneType
    /\ pc' = "respond"
    /\ UNCHANGED <<keySet, handler, log, start_resp, request_id, pollVars, final_result,
                   resultBody, fetched, kind, response, prev>>

\* if not img_bytes: ...; generate_image then sends the file
Respond ==
    /\ pc = "respond"
    /\ IF img_bytes.none \/ img_bytes.b = <<>>
       THEN Finish("NoImageFoundError",
                   ErrorResponse(500, "No image found in inference result", Null, final_result))
       ELSE IF handler = "generate_image"
       THEN Finish("ok", [status |-> 200, error |-> "", details |-> Null,
                          body |-> [t |-> "file", bytes |-> img_bytes.b,
                                    mimetype |-> IF content_type \in {NoneType, ""}
                                                 THEN "image/png" ELSE content_type]])
       ELSE pc' = "store" /\ UNCHANGED <<kind, response>>
    /\ UNCHANGED <<keySet, handler, log, start_resp, request_id, pollVars, final_result,
                   resultBody, extractVars, prev>>

\* upload_image_to_spaces: upload_to_spaces returns the public URL, or None
Store ==
    /\ pc = "store"
    /\ log' = Append(log, Entry("store", <<>>, TRUE, ""))
    /\ Finish("ok", [status |-> 200, error |-> "", details |-> Null,
                     body |-> [t |-> "uploaded"]])
    /\ UNCHANGED <<keySet, handler, start_resp, request_id, pollVars, final_result,
                   resultBody, extractVars, prev>>

StoreFails ==
    /\ pc = "store"
    /\ log' = Append(log, Entry("store", <<>>, FALSE, ""))
    /\ Finish("StoreError",
              ErrorResponse(500, "Failed to upload image to DigitalOcean Spaces", Null, Null))
    /\ UNCHANGED <<keySet, handler, start_resp, request_id, pollVars, final_result,
                   resultBody, extractVars, prev>>

\* The response goes out; the server is ready for the next request.
Deliver ==
    /\ pc = "done"
    /\ prev' = IF kind \in ErrorKinds
               THEN [handler |-> handler, kind |-> kind,
                     status |-> response.status, error |-> response.error]
               ELSE prev
    /\ pc' = "idle"
    /\ handler' = ""
    /\ log' = <<>>
    /\ start_resp' = Null
    /\ request_id' = Null
    /\ elapsed' = 0
    /\ lastFetch' = 0
    /\ lastSleep' = 0
    /\ status_json' = Null
    /\ pollStep' = ""
    /\ final_result' = Null
    /\ resultBody' = Null
    /\ fetched' = NoFetch
    /\ img_bytes' = NoneBytes
    /\ content_type' = NoneType
    /\ kind' = ""
    /\ response' = NoResponse
    /\ UNCHANGED keySet

\* one request, from its arrival to its response
Next ==
    \/ Begin
    \/ SubmitFails
    \/ Submit
    \/ Poll
    \/ PollFails
    \/ GetResult
    \/ GetResultFails
    \/ ExtractFetch
    \/ ExtractFetchFails
    \/ ExtractDecode
    \/ ExtractNothing
    \/ Respond
    \/ Store
    \/ StoreFails

Spec == Init /\ [][Next]_vars

\* the server: one request after another
ServerNext == Next \/ Deliver

ServerSpec == Init /\ [][ServerNext]_vars

\* ================================================================ properties
StatusEntries == {i \in 1..Len(log) : log[i].op = "status"}
ResultEntries == {i \in 1..Len(log) : log[i].op = "result"}
FetchEntries  == {i \in 1..Len(log) : log[i].op = "fetch"}
SubmitEntries == {i \in 1..Len(log) : log[i].op = "submit"}

\* extract_image_bytes_from_result has run on final_result
Extracted == final_result # Null /\ pc \in {"respond", "store", "done"}

\* ---------------------------------------------------------------------- C1
\* C1: every status answer is treated as terminal success exactly when its
\* status string is COMPLETE, SUCCEEDED or SUCCESS in any case, as terminal
\* failure exactly when it is FAILED or ERROR in any case, and as
\* non-terminal (sleep, or time out) otherwise, the empty and the missing
\* status included.
C1_StatusClassification ==
    (status_json # Null /\ pollStep # "") =>
        /\ (pollStep = "result") <=> (NormalizedStatus(status_json) = "Complete")
        /\ (pollStep = "failed") <=> (NormalizedStatus(status_json) = "Failed")
        /\ (pollStep \in {"sleep", "timeout"}) <=> (NormalizedStatus(status_json) = "Pending")

C1_Witness ==
    /\ pc = "result"
    /\ pollStep = "result"
    /\ status_json = StatusOf(<<"s","u","c","c","e","e","d","e","d">>)

\* ---------------------------------------------------------------------- C2
\* C2 as stated: a poll that times out (timeout 5, interval 1) fails no
\* earlier than 5 s and no later than 6 s after its start.
C2_Original ==
    kind = "PollTimeoutError" =>
        /\ elapsed >= DEFAULT_POLL_TIMEOUT
        /\ elapsed <= DEFAULT_POLL_TIMEOUT + DEFAULT_POLL_INTERVAL

\* C2 as amended: a poll that times out has seen only non-terminal statuses
\* and fails strictly later than the timeout, and no later than the timeout
\* plus the sleep before the last status request plus the time that request
\* took; while the loop runs, the time before its latest sleep is within the
\* timeout.
C2_TimeoutWindow ==
    /\ kind = "PollTimeoutError" =>
          /\ \A i \in StatusEntries : log[i].ok /\ log[i].obs = "Pending"
          /\ elapsed > DEFAULT_POLL_TIMEOUT
          /\ elapsed <= DEFAULT_POLL_TIMEOUT + lastSleep + lastFetch
    /\ pc = "poll" => elapsed - lastSleep <= DEFAULT_POLL_TIMEOUT

\* the case the statement has in mind: exact sleeps, immediate answers
C2_Witness ==
    /\ kind = "PollTimeoutError"
    /\ lastFetch = 0
    /\ lastSleep = DEFAULT_POLL_INTERVAL
    /\ elapsed = DEFAULT_POLL_TIMEOUT + DEFAULT_POLL_INTERVAL

SubmitKeys == <<"request_id", "id", "requestId">>
PresentKeys(r) == {i \in 1..3 : HasKey(r, SubmitKeys[i])}
TruthyKeys(r) == {i \in 1..3 : Truthy(Get(r, SubmitKeys[i]))}
Least(S) == CHOOSE i \in S : \A j \in S : i <= j

\* the requests to the status and result endpoints carry the id rid
PolledWith(rid) ==
    /\ \A i \in StatusEntries : log[i].url = StatusUrl(rid)
    /\ \A i \in ResultEntries : log[i].url = ResultUrl(rid)

MalformedEnd ==
    /\ pc = "done"
    /\ kind = "MalformedResponseError"
    /\ response.body = start_resp
    /\ StatusEntries = {} /\ ResultEntries = {}

\* C4 as stated: the job id is the value of the first of request_id, id,
\* requestId that is present in the submit answer; when none is present the
\* run fails as malformed, with the raw answer, and never polls.
C4_Original ==
    start_resp # Null =>
        IF PresentKeys(start_resp) # {}
        THEN /\ request_id = Get(start_resp, SubmitKeys[Least(PresentKeys(start_resp))])
             /\ kind # "MalformedResponseError"
             /\ PolledWith(request_id)
        ELSE MalformedEnd

\* C4 as amended: the job id is the value of the first of request_id, id,
\* requestId whose value is non-empty (a key that is absent, null or empty
\* is passed over); when none has such a value the run fails as malformed,
\* with the raw answer, and never polls.
C4_RequestId ==
    start_resp # Null =>
        IF TruthyKeys(start_resp) # {}
        THEN /\ request_id = Get(start_resp, SubmitKeys[Least(TruthyKeys(start_resp))])
             /\ kind # "MalformedResponseError"
             /\ PolledWith(request_id)
        ELSE MalformedEnd

C4_Witness ==
    /\ start_resp = Dict(<< <<"request_id", EmptyStr>>, <<"id", Str(<<"x">>)>> >>)
    /\ request_id = Str(<<"x">>)
    /\ StatusEntries # {}
    /\ ResultEntries # {}

\* ---------------------------------------------------------------------- C5
\* C5: when result.url is a non-empty string, exactly that URL is fetched,
\* whatever else the result holds; the body is returned unchanged with the
\* declared content type, image/png when none is declared; when the fetch
\* fails the run fails with the transport error and nothing else is tried.
C5_TopLevelUrl ==
    (Extracted /\ Get(final_result, "url").t = "str" /\ Get(final_result, "url").s # <<>>) =>
        /\ fetched.done
        /\ Cardinality(FetchEntries) = 1
        /\ \A i \in FetchEntries : log[i].url = Get(final_result, "url").s
        /\ fetched.ok =>
              /\ img_bytes = Bytes(fetched.content)
              /\ content_type = IF fetched.headers.has THEN fetched.headers.v ELSE "image/png"
        /\ ~fetched.ok =>
              /\ pc = "done"
              /\ kind = "TransportError"
              /\ img_bytes = NoneBytes

C5_Witness ==
    /\ pc = "respond"
    /\ final_result = Dict(<< <<"url", U1>>, <<"output", List(<< Dict(<< <<"url", U2>> >>) >>)>> >>)
    /\ fetched.ok
    /\ ~fetched.headers.has
    /\ content_type = "image/png"
    /\ img_bytes = Bytes(<<137, 80>>)

\* what extract_image_bytes_from_result is seen to have done, against a plan
ExtractDid(plan) ==
    CASE plan.kind = "fetch" ->
            /\ fetched.done
            /\ Cardinality(FetchEntries) = 1
            /\ \A i \in FetchEntries : log[i].url = plan.arg.s
      [] plan.kind = "decode" ->
            /\ ~fetched.done
            /\ FetchEntries = {}
            /\ IF B64Decode(plan.arg.s).ok
               THEN img_bytes = Bytes(B64Decode(plan.arg.s).bytes) /\ content_type = "image/png"
               ELSE pc = "done" /\ kind = "DecodeError"
      [] plan.kind = "none" ->
            /\ ~fetched.done
            /\ FetchEntries = {}
            /\ img_bytes = NoneBytes
            /\ pc = "done" => kind = "NoImageFoundError"

\* ---------------------------------------------------------------------- C6
\* the first string that begins with http, depth first: the values of a
\* mapping in insertion order, the elements of a sequence in index order
RECURSIVE DfsFirstUrl(_), DfsItems(_, _), DfsElems(_, _)
DfsItems(kv, i) ==
    IF i > Len(kv) THEN Null
    ELSE IF DfsFirstUrl(kv[i][2]) # Null THEN DfsFirstUrl(kv[i][2])
    ELSE DfsItems(kv, i + 1)
DfsElems(el, i) ==
    IF i > Len(el) THEN Null
    ELSE IF DfsFirstUrl(el[i]) # Null THEN DfsFirstUrl(el[i])
    ELSE DfsElems(el, i + 1)
DfsFirstUrl(obj) ==
    IF obj.t = "str" THEN (IF StartsWithHttp(obj.s) THEN obj ELSE Null)
    ELSE IF obj.t = "dict" THEN DfsItems(obj.kv, 1)
    ELSE IF obj.t = "list" THEN DfsElems(obj.el, 1)
    ELSE Null

\* C6: when neither the top-level URL nor the output array matched, the
\* first string beginning with http anywhere in the result, depth first, a
\* string that is an element of a sequence included, is what is fetched;
\* when there is none, nothing is fetched and the run fails with the
\* no-image error.
C6_RecursiveSearch ==
    (Extracted /\ ExtractPlan(final_result).strategy \notin {1, 2}) =>
        IF DfsFirstUrl(final_result) # Null
        THEN ExtractDid(Plan("fetch", 3, DfsFirstUrl(final_result)))
        ELSE ExtractDid(NoPlan)

\* ---------------------------------------------------------------------- C7
\* C7: two runs of one handler that fail with different kinds of the
\* taxonomy are answered differently (status code and error), so that the
\* answer tells the kind, and with it timeout, upstream failure and contract
\* violation, apart.
C7_DistinctKinds ==
    (/\ pc = "done"
     /\ kind \in ErrorKinds
     /\ prev.kind \in ErrorKinds
     /\ prev.handler = handler
     /\ prev.kind # kind)
    => <<prev.status, prev.error>> # <<response.status, response.error>>

\* ---------------------------------------------------------------------- C8
\* C8: a status answer that normalizes to Complete sends the poll on to the
\* result request whatever the elapsed time, never to the timeout; the poll
\* times out only on a non-terminal status answer and only when the elapsed
\* time exceeds the timeout.
C8_TimeoutAfterStatus ==
    /\ (status_json # Null /\ NormalizedStatus(status_json) = "Complete") =>
          /\ pollStep = "result"
          /\ kind # "PollTimeoutError"
          /\ pc = "result" \/ (pc = "done" /\ kind = "TransportError" /\ ResultEntries # {})
    /\ kind = "PollTimeoutError" =>
          /\ status_json # Null
          /\ NormalizedStatus(status_json) = "Pending"
          /\ elapsed > DEFAULT_POLL_TIMEOUT
    /\ pc = "extract" => (final_result = resultBody /\ kind = "")

C8_Witness ==
    /\ pc = "result"
    /\ NormalizedStatus(status_json) = "Complete"
    /\ elapsed > DEFAULT_POLL_TIMEOUT

\* ---------------------------------------------------------------------- C9
PresentOutputs(r) == {i \in 1..3 : HasKey(r, <<"output", "outputs", "results">>[i])}
TruthyOutputs(r) == {i \in 1..3 : Truthy(Get(r, <<"output", "outputs", "results">>[i]))}
OutputAt(r, S) == IF S = {} THEN Null ELSE Get(r, <<"output", "outputs", "results">>[Least(S)])

\* url before base64 before b64 before a string under image
ItemOrder(item) ==
    IF item.t # "dict" THEN NoPlan
    ELSE IF Truthy(Get(item, "url")) THEN Plan("fetch", 2, Get(item, "url"))
    ELSE IF Truthy(Get(item, "base64")) THEN Plan("decode", 2, Get(item, "base64"))
    ELSE IF Truthy(Get(item, "b64")) THEN Plan("decode", 2, Get(item, "b64"))
    ELSE IF Get(item, "image").t = "str" /\ Truthy(Get(item, "image"))
         THEN Plan("decode", 2, Get(item, "image"))
    ELSE NoPlan

\* strategy 2 on the array out, and the recursive search when it does not match
OutputArrayDid(out) ==
    IF out.t = "list" /\ Len(out.el) > 0 /\ ItemOrder(out.el[1]) # NoPlan
    THEN ExtractDid(ItemOrder(out.el[1]))
    ELSE ExtractDid(SearchPlan(final_result))

HelloResult == Dict(<< <<"output", List(<< Dict(<< <<"base64", B64_hello>> >>) >>)>> >>)

\* C9 as stated: without a top-level URL, the array examined is the value
\* of the first of output, outputs, results that is present; only its
\* element 0 is inspected, url before base64 before b64 before a string
\* image, the last three decoded as base64 into an image/png.
C9_Original ==
    (Extracted /\ ~Truthy(Get(final_result, "url"))) =>
        OutputArrayDid(OutputAt(final_result, PresentOutputs(final_result)))

\* C9 as amended: the array examined is the value of the first of output,
\* outputs, results whose value is non-empty, so that an empty output falls
\* through to outputs and results; the rest as stated.
C9_OutputArray ==
    /\ (Extracted /\ ~Truthy(Get(final_result, "url"))) =>
          OutputArrayDid(OutputAt(final_result, TruthyOutputs(final_result)))
    /\ (final_result = HelloResult /\ pc \in {"respond", "store", "done"}) =>
          /\ img_bytes = Bytes(<<104, 101, 108, 108, 111>>)
          /\ content_type = "image/png"

C9_Witness ==
    /\ pc = "respond"
    /\ final_result = Dict(<< <<"output", List(<<>>)>>,
                              <<"outputs", List(<< Dict(<< <<"b64", B64_hi>> >>) >>)>> >>)
    /\ img_bytes = Bytes(<<104, 105>>)
    /\ content_type = "image/png"

\* --------------------------------------------------------------------- C10
\* C10: a run that reaches the submit makes it once; a failed outbound
\* request is the last request of its run, and the run has failed.
C10_NoRetry ==
    /\ Cardinality(SubmitEntries) <= 1
    /\ (pc \notin {"idle", "submit"} /\ kind \notin {"NotConfigured", "BadRequest"}) =>
          (Cardinality(SubmitEntries) = 1 /\ log[1].op = "submit")
    /\ \A i \in 1..Len(log) :
          ~log[i].ok => (i = Len(log) /\ pc = "done" /\ response.status >= 500)

C10_Witness ==
    /\ pc = "done"
    /\ Len(log) >= 3
    /\ log[Len(log)].op = "status"
    /\ ~log[Len(log)].ok
    /\ kind = "TransportError"

====
